---- MODULE Spec2Model ----
(***************************************************************************)
(* SimpleWebSocketAPI: a command/reply protocol on top of a WebSocket.     *)
(* The model follows the newest revision of the class (the one with        *)
(* destroyOnClose and SimpleWebSocketAPI_Error).                           *)
(*                                                                         *)
(* Two state variables hold the objects of the program: ep, the endpoint   *)
(* instances with their private fields, and sock, the WebSocket objects    *)
(* they are bound to.  last records the call or event that was just        *)
(* handled, what it raised and what it returned; heard records the reply   *)
(* envelopes that reached an endpoint's message handler for a request it   *)
(* had issued.                                                             *)
(***************************************************************************)
EXTENDS Integers, Sequences, FiniteSets, TLC

VARIABLES ep, sock, last, heard

vars == <<ep, sock, last, heard>>

(* ------------------------------ bounds -------------------------------- *)
\* requests one endpoint may issue
MaxSends == 2
\* changeWebSocket calls on one endpoint
MaxBinds == 2
\* frames the counterpart of the single endpoint delivers
MaxIncoming == 2
\* markers and binary frames one socket may receive
MaxSlotFrames == 3

(* ------------------------- program constants -------------------------- *)
CONNECTING == 0
OPEN == 1
CLOSING == 2
CLOSED == 3
DefaultReplyTimeout == 2000
DestroyCloseCode == 4000
AlreadyClosedCode == 4001

EP == {"a", "b"}
W == {"w1", "w2"}
NoWs == "none"
WsEvents == {"open", "error", "close", "message"}
ReservedNames == {"open", "close", "error", "newListener", "removeListener"}
InternalPrefix == "int:"

(* ----------------------------- JS values ------------------------------ *)
Undefined == [type |-> "undefined", v |-> ""]
JsStr(s) == [type |-> "string", v |-> s]
JsNum(s) == [type |-> "number", v |-> s]
JsBinary(b) == [type |-> "binary", v |-> b]
JsObject(s) == [type |-> "object", v |-> s]
JsError(msg) == [type |-> "Error", v |-> msg]
ApiError(msg, code) == [type |-> "SimpleWebSocketAPI_Error", v |-> msg, code |-> code]

typeof(x) == x.type

startsWith(s, p) == Len(s) >= Len(p) /\ SubSeq(s, 1, Len(p)) = p

\* payload instanceof ArrayBuffer || ArrayBuffer.isView(payload) || payload instanceof Blob
isBinary(x) == x.type = "binary"

\* What JSON.stringify followed by JSON.parse makes of a value: own enumerable
\* properties only, so an Error keeps neither message nor stack.
jsonValue(x) ==
  CASE x.type = "Error" -> JsObject("{}")
    [] x.type = "SimpleWebSocketAPI_Error" ->
         JsObject("{name:SimpleWebSocketAPI_Error,code:" \o x.code \o "}")
    [] OTHER -> x

\* JSON.stringify({cmd, payload, id}): a key whose value is undefined is left out.
\* The text is kept as the object it parses to.
stringifyEnvelope(cmd, payload, id) ==
  IF payload = Undefined
    THEN [type |-> "string", json |-> [cmd |-> cmd, id |-> id]]
    ELSE [type |-> "string", json |-> [cmd |-> cmd, payload |-> jsonValue(payload), id |-> id]]

\* JSON.stringify({cmd: 'int:binaryReply', id})
stringifyMarker(id) == [type |-> "string", json |-> [cmd |-> "int:binaryReply", id |-> id]]

\* const {cmd, payload, id} = JSON.parse(data)
hasCmd(data) == "cmd" \in DOMAIN data.json
parsedCmd(data) == data.json.cmd
parsedId(data) == data.json.id
parsedPayload(data) == IF "payload" \in DOMAIN data.json THEN data.json.payload ELSE Undefined

timeoutError(cmd, replyTimeout) ==
  ApiError("A reply for \"" \o cmd \o "\" was not received within the replyTimeout period of "
             \o ToString(replyTimeout) \o " ms.", "REPLY_TIMEOUT")


(* --------------------------- the program state ------------------------ *)
\* One call or event runs against a world: the endpoints, the sockets, what the
\* call raised (thrown) and what it returned (ret).
World(eps, socks) == [ep |-> eps, sock |-> socks, thrown |-> "none", ret |-> "undefined"]

\* new SimpleWebSocketAPI({destroyOnClose}) without a ws
newEndpoint(destroyOnClose) ==
  [ws |-> NoWs, msgId |-> 0, awaitingReply |-> {}, awaitingBinaryReply |-> {},
   destroyOnClose |-> destroyOnClose, destroyed |-> FALSE,
   closeListeners |-> <<>>, subs |-> {}, notes |-> <<>>,
   promise |-> <<>>, helpers |-> {}]

\* a WebSocket object in the given readyState
newSocket(readyState) ==
  [readyState |-> readyState, attached |-> {}, sent |-> <<>>, closeCalls |-> 0, delivered |-> 0]

\* get isOpen() / get isClosed(): this.#ws?.readyState == OPEN / CLOSED
isOpen(e, wd) == wd.ep[e].ws # NoWs /\ wd.sock[wd.ep[e].ws].readyState = OPEN
isClosed(e, wd) == wd.ep[e].ws # NoWs /\ wd.sock[wd.ep[e].ws].readyState = CLOSED

\* ws.send(data) on an open socket: the frame is on the wire
wsSend(w, data, wd) == [wd EXCEPT !.sock[w].sent = Append(@, data)]

\* ws.close(): the socket starts its closing handshake
wsClose(w, wd) ==
  [wd EXCEPT !.sock[w].closeCalls = @ + 1,
             !.sock[w].readyState = IF @ = CLOSED THEN CLOSED ELSE CLOSING]

\* #removeWsListeners()
removeWsListeners(e, wd) ==
  IF wd.ep[e].ws = NoWs THEN wd
  ELSE [wd EXCEPT !.sock[wd.ep[e].ws].attached = @ \ {<<e, ev>> : ev \in WsEvents}]

\* a listener the user registered for a lifecycle event is called
notify(e, note, wd) == [wd EXCEPT !.ep[e].notes = Append(@, note)]

RemoveFirst(list, x) ==
  LET idx == {i \in 1..Len(list) : list[i] = x}
  IN IF idx = {} THEN list
     ELSE LET k == CHOOSE i \in idx : \A j \in idx : i <= j
          IN SubSeq(list, 1, k - 1) \o SubSeq(list, k + 1, Len(list))

RECURSIVE destroy(_, _)
RECURSIVE emitCloseList(_, _, _, _)

\* the one-shot handler of the revision before destroyOnClose:
\* this.once('close', this.#removeWsListeners.bind(this))
onceCloseHandlerDetachOnly(e, wd) == removeWsListeners(e, wd)

\* the one-shot handler changeWebSocket registers with this.once('close', ...)
onceCloseHandler(e, wd) ==
  LET w1 == removeWsListeners(e, wd)
  IN IF w1.ep[e].destroyOnClose THEN destroy(e, w1) ELSE w1

\* EventEmitter.emit('close', ...) over a copy of the listener array, in
\* registration order; a once-listener unregisters itself before it runs.
emitCloseList(e, list, note, wd) ==
  IF list = <<>> THEN wd
  ELSE LET w1 == IF Head(list) = "user" THEN notify(e, note, wd)
                 ELSE onceCloseHandler(e,
                        [wd EXCEPT !.ep[e].closeListeners = RemoveFirst(@, "once")])
       IN emitCloseList(e, Tail(list), note, w1)

emitClose(e, note, wd) == emitCloseList(e, wd.ep[e].closeListeners, note, wd)

destroyNote == [ev |-> "close", from |-> "destroy", code |-> DestroyCloseCode,
                reason |-> "SimpleWebSocketAPI destroy call", wasClean |-> TRUE]

\* destroy() as in the earlier revisions, without if (this.#destroyed) return
destroyUnguarded(e, wd) ==
  LET w1 == [wd EXCEPT !.ep[e].destroyed = TRUE, !.ep[e].awaitingReply = {}]
      ws == w1.ep[e].ws
      w2 == IF ws # NoWs /\ w1.sock[ws].readyState # CLOSED
              THEN emitClose(e, destroyNote, wsClose(ws, w1))
              ELSE w1
  IN [w2 EXCEPT !.ep[e].closeListeners = <<>>, !.ep[e].subs = {}]

\* destroy() as it would be if it also cleared the timers of the requests it drops
destroyDisarming(e, wd) ==
  IF wd.ep[e].destroyed THEN wd
  ELSE LET w1 == [wd EXCEPT !.ep[e].destroyed = TRUE, !.ep[e].awaitingReply = {},
                            !.ep[e].promise = [i \in DOMAIN @ |-> [@[i] EXCEPT !.timer = "cleared"]]]
           ws == w1.ep[e].ws
           w2 == IF ws # NoWs /\ w1.sock[ws].readyState # CLOSED
                   THEN emitClose(e, destroyNote, wsClose(ws, w1))
                   ELSE w1
       IN [w2 EXCEPT !.ep[e].closeListeners = <<>>, !.ep[e].subs = {}]

\* destroy()
destroy(e, wd) ==
  IF wd.ep[e].destroyed THEN wd
  ELSE LET w1 == [wd EXCEPT !.ep[e].destroyed = TRUE, !.ep[e].awaitingReply = {}]
           ws == w1.ep[e].ws
           w2 == IF ws # NoWs /\ w1.sock[ws].readyState # CLOSED
                   THEN emitClose(e, destroyNote, wsClose(ws, w1))
                   ELSE w1
       IN \* removeAllListeners()
          [w2 EXCEPT !.ep[e].closeListeners = <<>>, !.ep[e].subs = {}]


\* setTimeout(0, this.emit.bind(this), ...): the callback and the delay are
\* swapped.  Node refuses a callback that is no function (TypeError); a browser
\* takes 0 as a script to run later and the function as the delay.  Either way
\* emit is never called.
Hosts == {"node", "browser"}
setTimeoutSwapped(host, wd) ==
  IF host = "node" THEN [wd EXCEPT !.thrown = "TypeError"] ELSE wd

\* changeWebSocket as it would be without its first #removeWsListeners() call
changeWebSocketKeepsOld(e, w, host, wd) ==
  IF wd.ep[e].destroyed THEN wd
  ELSE LET w2 == [wd EXCEPT !.ep[e].closeListeners = Append(@, "once"),
                            !.ep[e].ws = w]
       IN IF isClosed(e, w2) THEN setTimeoutSwapped(host, w2)
          ELSE LET w3 == [w2 EXCEPT !.sock[w].attached = @ \cup {<<e, ev>> : ev \in WsEvents}]
               IN IF isOpen(e, w3) THEN setTimeoutSwapped(host, w3) ELSE w3

\* changeWebSocket as it would be if a new socket restarted the id counter
changeWebSocketResetsId(e, w, host, wd) ==
  IF wd.ep[e].destroyed THEN wd
  ELSE LET w1 == removeWsListeners(e, wd)
           w2 == [w1 EXCEPT !.ep[e].closeListeners = Append(@, "once"),
                            !.ep[e].ws = w,
                            !.ep[e].msgId = 0]
       IN IF isClosed(e, w2) THEN setTimeoutSwapped(host, w2)
          ELSE LET w3 == [w2 EXCEPT !.sock[w].attached = @ \cup {<<e, ev>> : ev \in WsEvents}]
               IN IF isOpen(e, w3) THEN setTimeoutSwapped(host, w3) ELSE w3

\* changeWebSocket(newWebSocket)
changeWebSocket(e, w, host, wd) ==
  IF wd.ep[e].destroyed THEN wd
  ELSE LET w1 == removeWsListeners(e, wd)
           w2 == [w1 EXCEPT !.ep[e].closeListeners = Append(@, "once"),
                            !.ep[e].ws = w]
       IN IF isClosed(e, w2) THEN setTimeoutSwapped(host, w2)
          ELSE LET w3 == [w2 EXCEPT !.sock[w].attached = @ \cup {<<e, ev>> : ev \in WsEvents}]
               IN IF isOpen(e, w3) THEN setTimeoutSwapped(host, w3) ELSE w3

(* ------------------------- requests and replies ----------------------- *)
\* newPromise as in the earlier revisions: setTimeout(reject, replyTimeout),
\* a timer that rejects with nothing
newPromiseBareTimer(cmd, replyTimeout) ==
  [cmd |-> cmd, replyTimeout |-> replyTimeout, state |-> "pending", value |-> Undefined,
   timer |-> "armed", timerArg |-> Undefined]

\* the promise send returns, with the timer armed for it
newPromise(cmd, replyTimeout) ==
  [cmd |-> cmd, replyTimeout |-> replyTimeout, state |-> "pending", value |-> Undefined,
   timer |-> "armed", timerArg |-> timeoutError(cmd, replyTimeout)]

\* resolve(x) / reject(x) of a promise: only the first settlement counts
promiseResolve(p, x) ==
  IF p.state = "pending" THEN [p EXCEPT !.state = "resolved", !.value = x] ELSE p
promiseReject(p, x) ==
  IF p.state = "pending" THEN [p EXCEPT !.state = "rejected", !.value = x] ELSE p

\* clearTimeout(timeout)
clearTimeout(p) == IF p.timer = "armed" THEN [p EXCEPT !.timer = "cleared"] ELSE p

\* resolveEntry as it would be without its clearTimeout(timeout)
resolveEntryKeepsTimer(p, result) == promiseResolve(p, result)

\* the resolve and reject entries stored in #awaitingReply
resolveEntry(p, result) == promiseResolve(clearTimeout(p), result)
rejectEntry(p, error) == promiseReject(clearTimeout(p), error)

\* the timer set by setTimeout(reject, replyTimeout, error) runs
timerRuns(p) == promiseReject([p EXCEPT !.timer = "fired"], p.timerArg)

configError(wd) == [wd EXCEPT !.thrown = "SimpleWebSocketAPI_Error"]

\* send as in the first revision, where only the EventEmitter's own names
\* 'newListener', 'removeListener' and 'error' were refused
sendOldReservedNames(e, cmd, payload, replyTimeout, wd) ==
  IF wd.ep[e].destroyed \/ ~isOpen(e, wd) THEN wd
  ELSE IF typeof(cmd) # "string" THEN configError(wd)
  ELSE IF startsWith(cmd.v, InternalPrefix) THEN configError(wd)
  ELSE IF cmd.v \in {"newListener", "removeListener", "error"} THEN configError(wd)
  ELSE LET id == wd.ep[e].msgId
           w1 == [wd EXCEPT !.ep[e].msgId = @ + 1]
           w2 == wsSend(w1.ep[e].ws, stringifyEnvelope(cmd.v, payload, id), w1)
       IN [w2 EXCEPT !.ep[e].promise = Append(@, newPromise(cmd.v, replyTimeout)),
                     !.ep[e].awaitingReply = @ \cup {id},
                     !.ret = "promise"]

\* send as in the first revision, without the destroyed / not open guard
sendUnguarded(e, cmd, payload, replyTimeout, wd) ==
  IF typeof(cmd) # "string" THEN configError(wd)
  ELSE IF startsWith(cmd.v, InternalPrefix) THEN configError(wd)
  ELSE IF cmd.v \in ReservedNames THEN configError(wd)
  ELSE IF wd.ep[e].ws = NoWs THEN [wd EXCEPT !.ep[e].msgId = @ + 1, !.thrown = "TypeError"]
  ELSE LET id == wd.ep[e].msgId
           w1 == [wd EXCEPT !.ep[e].msgId = @ + 1]
           w2 == wsSend(w1.ep[e].ws, stringifyEnvelope(cmd.v, payload, id), w1)
       IN [w2 EXCEPT !.ep[e].promise = Append(@, newPromise(cmd.v, replyTimeout)),
                     !.ep[e].awaitingReply = @ \cup {id},
                     !.ret = "promise"]

\* send(cmd, payload, replyTimeout)
send(e, cmd, payload, replyTimeout, wd) ==
  IF wd.ep[e].destroyed \/ ~isOpen(e, wd) THEN wd
  ELSE IF typeof(cmd) # "string" THEN configError(wd)
  ELSE IF startsWith(cmd.v, InternalPrefix) THEN configError(wd)
  ELSE IF cmd.v \in ReservedNames THEN configError(wd)
  ELSE LET id == wd.ep[e].msgId
           w1 == [wd EXCEPT !.ep[e].msgId = @ + 1]
           w2 == wsSend(w1.ep[e].ws, stringifyEnvelope(cmd.v, payload, id), w1)
       IN [w2 EXCEPT !.ep[e].promise = Append(@, newPromise(cmd.v, replyTimeout)),
                     !.ep[e].awaitingReply = @ \cup {id},
                     !.ret = "promise"]

\* #reply as in the first revision, without the destroyed / not open guard
replyUnguarded(e, id, payload, isError, wd) ==
  IF isBinary(payload)
    THEN IF isError THEN configError(wd)
         ELSE wsSend(wd.ep[e].ws, payload, wsSend(wd.ep[e].ws, stringifyMarker(id), wd))
    ELSE wsSend(wd.ep[e].ws,
                stringifyEnvelope(IF isError THEN "int:errorReply" ELSE "int:reply", payload, id),
                wd)

\* #reply as it would be with the two ws.send calls of a binary reply exchanged
replyPayloadFirst(e, id, payload, isError, wd) ==
  IF wd.ep[e].destroyed \/ ~isOpen(e, wd) THEN wd
  ELSE IF isBinary(payload)
    THEN IF isError THEN configError(wd)
         ELSE wsSend(wd.ep[e].ws, stringifyMarker(id), wsSend(wd.ep[e].ws, payload, wd))
    ELSE wsSend(wd.ep[e].ws,
                stringifyEnvelope(IF isError THEN "int:errorReply" ELSE "int:reply", payload, id),
                wd)

\* #reply(id, payload, isError)
reply(e, id, payload, isError, wd) ==
  IF wd.ep[e].destroyed \/ ~isOpen(e, wd) THEN wd
  ELSE IF isBinary(payload)
    THEN IF isError THEN configError(wd)
         ELSE wsSend(wd.ep[e].ws, payload, wsSend(wd.ep[e].ws, stringifyMarker(id), wd))
    ELSE wsSend(wd.ep[e].ws,
                stringifyEnvelope(IF isError THEN "int:errorReply" ELSE "int:reply", payload, id),
                wd)

\* the function #replyFunc(id) returns, called with a value (not a thunk):
\* whatever #reply raises is caught and sent as an error reply
replyFuncValue(e, id, payload, isError, wd) ==
  LET w1 == reply(e, id, payload, isError, wd)
  IN IF w1.thrown = "none" THEN w1
     ELSE reply(e, id, ApiError("Can't send a binary error reply.", "INVALID_PARAMETER"),
                TRUE, wd)

\* the thunk branch as it would be without the try / catch
replyFuncThunkUncaught(e, id, outcome, isError, wd) ==
  IF outcome.ok THEN reply(e, id, outcome.v, isError, wd)
  ELSE [wd EXCEPT !.thrown = "thunk"]

\* the same function called with a thunk, at the moment the awaited thunk
\* settles: its result goes to #reply, its failure is caught and goes to
\* #reply as an error reply.  What #reply raises inside the catch block is
\* not caught: it rejects the promise the async function returned.
replyFuncThunk(e, id, outcome, isError, wd) ==
  LET w1 == IF outcome.ok THEN reply(e, id, outcome.v, isError, wd)
            ELSE [wd EXCEPT !.thrown = "thunk"]
  IN IF w1.thrown = "none" THEN w1
     ELSE reply(e, id,
                IF outcome.ok THEN ApiError("Can't send a binary error reply.", "INVALID_PARAMETER")
                              ELSE outcome.v,
                TRUE, wd)

\* the promise of request id (ids count from 0)
promiseOf(e, id, wd) == wd.ep[e].promise[id + 1]
setPromise(e, id, p, wd) == [wd EXCEPT !.ep[e].promise[id + 1] = p]

\* this.emit(cmd, this.#replyFunc(id), payload) in #onMessage; ret is what emit
\* returns, "true" when the event had listeners.  A 'close' event runs the
\* close listeners, an 'error' event without a listener makes EventEmitter
\* throw, any other name reaches the listener the user registered for it.
emitCommand(e, cmd, id, wd) ==
  IF cmd = "close"
    THEN LET w1 == emitClose(e, [ev |-> "close", from |-> "message", code |-> id], wd)
         IN [w1 EXCEPT !.ret = IF wd.ep[e].closeListeners # <<>> THEN "true" ELSE "false"]
  ELSE IF cmd \notin wd.ep[e].subs
    THEN IF cmd = "error" THEN [wd EXCEPT !.thrown = "ERR_UNHANDLED_ERROR"]
         ELSE [wd EXCEPT !.ret = "false"]
  ELSE IF cmd \in ReservedNames
    THEN [notify(e, [ev |-> cmd, from |-> "message", code |-> id], wd) EXCEPT !.ret = "true"]
    ELSE [wd EXCEPT !.ep[e].helpers = @ \cup {id}, !.ret = "true"]

InternalReplies == {"int:reply", "int:errorReply", "int:binaryReply"}

\* onReply as it would be if a marker left an armed binary reply slot alone
onReplyFirstMarkerWins(e, cmd, payload, id, wd) ==
  IF id \notin wd.ep[e].awaitingReply THEN [wd EXCEPT !.thrown = "TypeError"]
  ELSE LET p == promiseOf(e, id, wd)
           w1 == CASE cmd = "int:reply" -> setPromise(e, id, resolveEntry(p, payload), wd)
                   [] cmd = "int:errorReply" -> setPromise(e, id, rejectEntry(p, payload), wd)
                   [] cmd = "int:binaryReply" ->
                        IF wd.ep[e].awaitingBinaryReply = {}
                          THEN [wd EXCEPT !.ep[e].awaitingBinaryReply = {id}]
                          ELSE wd
       IN [w1 EXCEPT !.ep[e].awaitingReply = @ \ {id}]

\* onReply as it would be without this.#awaitingReply.delete(id)
onReplyKeepsEntry(e, cmd, payload, id, wd) ==
  IF id \notin wd.ep[e].awaitingReply THEN [wd EXCEPT !.thrown = "TypeError"]
  ELSE LET p == promiseOf(e, id, wd)
       IN CASE cmd = "int:reply" -> setPromise(e, id, resolveEntry(p, payload), wd)
            [] cmd = "int:errorReply" -> setPromise(e, id, rejectEntry(p, payload), wd)
            [] cmd = "int:binaryReply" -> [wd EXCEPT !.ep[e].awaitingBinaryReply = {id}]

\* the case 'int:reply': case 'int:errorReply': case 'int:binaryReply': block.
\* this.#awaitingReply.get(id) is undefined for an unknown id, and
\* destructuring undefined raises a TypeError.
onReply(e, cmd, payload, id, wd) ==
  IF id \notin wd.ep[e].awaitingReply THEN [wd EXCEPT !.thrown = "TypeError"]
  ELSE LET p == promiseOf(e, id, wd)
           w1 == CASE cmd = "int:reply" -> setPromise(e, id, resolveEntry(p, payload), wd)
                   [] cmd = "int:errorReply" -> setPromise(e, id, rejectEntry(p, payload), wd)
                   [] cmd = "int:binaryReply" -> [wd EXCEPT !.ep[e].awaitingBinaryReply = {id}]
       IN [w1 EXCEPT !.ep[e].awaitingReply = @ \ {id}]

\* the binary branch of #onMessage
onBinary(e, data, wd) ==
  IF wd.ep[e].awaitingBinaryReply # {}
    THEN LET id == CHOOSE i \in wd.ep[e].awaitingBinaryReply : TRUE
             w1 == setPromise(e, id, resolveEntry(promiseOf(e, id, wd), data), wd)
         IN [w1 EXCEPT !.ep[e].awaitingBinaryReply = {}]
    ELSE wd

\* the payload as it would be if the command name were left out of it
noListenerPayloadBare(cmd) == JsStr("No listener for command: ")

noListenerPayload(cmd) == JsStr("No listener for command: " \o cmd)

\* #onMessage({data})
onMessage(e, data, wd) ==
  IF wd.ep[e].destroyed THEN wd
  ELSE IF typeof(data) # "string" THEN onBinary(e, data, wd)
  ELSE IF ~hasCmd(data) THEN wd
  ELSE IF parsedCmd(data) \in InternalReplies
    THEN onReply(e, parsedCmd(data), parsedPayload(data), parsedId(data), wd)
  ELSE LET w1 == emitCommand(e, parsedCmd(data), parsedId(data), wd)
       IN IF w1.thrown = "none" /\ w1.ret = "false"
            THEN reply(e, parsedId(data), noListenerPayload(parsedCmd(data)), TRUE,
                       [w1 EXCEPT !.ret = "undefined"])
            ELSE [w1 EXCEPT !.ret = "undefined"]

\* the dispatch of a socket event to the listeners changeWebSocket attached;
\* all but 'message' were added with {once: true}
detachOnce(e, w, ev, wd) == [wd EXCEPT !.sock[w].attached = @ \ {<<e, ev>>}]

lifecycleNote(ev) == [ev |-> ev, from |-> "transport", code |-> 0]

\* 'open': () => this.emit('open')
onWsOpen(e, w, wd) ==
  LET w1 == detachOnce(e, w, "open", wd)
  IN IF "open" \in w1.ep[e].subs THEN notify(e, lifecycleNote("open"), w1) ELSE w1

\* 'error': event => this.emit('error', event); EventEmitter throws when an
\* 'error' event has no listener
onWsError(e, w, wd) ==
  LET w1 == detachOnce(e, w, "error", wd)
  IN IF "error" \in w1.ep[e].subs THEN notify(e, lifecycleNote("error"), w1)
     ELSE [w1 EXCEPT !.thrown = "ERR_UNHANDLED_ERROR"]

\* 'close': event => this.emit('close', event)
onWsClose(e, w, wd) == emitClose(e, lifecycleNote("close"), detachOnce(e, w, "close", wd))


(* ------------------------------ inputs -------------------------------- *)
\* the (cmd, payload, replyTimeout) arguments of the valid send that gets id
ValidSend(id) ==
  IF id % 2 = 0 THEN <<JsStr("echo"), JsStr("p"), DefaultReplyTimeout>>
                ELSE <<JsStr("get"), Undefined, 50>>
InvalidCmds == {JsNum("42"), JsStr("int:reply"), JsStr("int:x")} \cup {JsStr(n) : n \in ReservedNames}
InvalidSends == {<<c, JsStr("p"), DefaultReplyTimeout>> : c \in InvalidCmds}

\* events the user of an endpoint subscribes to
UserEvents == {"close", "error"}

\* frames the counterpart of the single endpoint sends
textFrame(json) == [type |-> "string", json |-> json]
ReplyFrames ==
  {textFrame([cmd |-> "int:reply", payload |-> JsStr("ok"), id |-> i]) : i \in 0..(MaxSends - 1)}
  \cup {textFrame([cmd |-> "int:errorReply", payload |-> JsStr("err"), id |-> i]) : i \in 0..(MaxSends - 1)}
  \cup {textFrame([cmd |-> "int:binaryReply", id |-> i]) : i \in 0..(MaxSends - 1)}
EnvFrames == ReplyFrames \cup {textFrame([id |-> 0]), JsBinary("B1")}

\* what a command handler passes to the reply helper
ReplyArgs == {<<JsStr("r"), FALSE>>, <<JsStr("e"), TRUE>>, <<JsBinary("B2"), FALSE>>,
              <<JsBinary("B3"), FALSE>>, <<JsBinary("B2"), TRUE>>}

\* how a thunk given to the reply helper ends: with a value, or failing with
\* a string, an Error or binary data
ThunkOutcomes ==
  {[ok |-> TRUE, v |-> JsStr("r")], [ok |-> FALSE, v |-> JsStr("boom")],
   [ok |-> FALSE, v |-> JsError("bad")], [ok |-> FALSE, v |-> JsBinary("B2")]}

\* command envelopes the counterpart sends, the reserved names included
CmdFrames ==
  {textFrame([cmd |-> "echo", payload |-> JsStr("q"), id |-> 0]),
   textFrame([cmd |-> "get", id |-> 1]),
   textFrame([cmd |-> "close", id |-> 0]),
   textFrame([cmd |-> "error", id |-> 0])}

(* ------------------------------ actions ------------------------------- *)
\* the endpoint whose listener for ev is attached to socket w
ListenersOf(w, ev) == {e \in EP : <<e, ev>> \in sock[w].attached}

Step(op, e, arg, wd) ==
  /\ ep' = wd.ep
  /\ sock' = wd.sock
  /\ last' = [op |-> op, e |-> e, arg |-> arg, thrown |-> wd.thrown, ret |-> wd.ret]

Done(op, e, arg, wd) == Step(op, e, arg, wd) /\ heard' = heard

\* a message event of socket w with this data; the listener, if one is attached,
\* is the #onMessage of an endpoint
Arrive(w, data, wd) ==
  LET ls == ListenersOf(w, "message")
      e == CHOOSE x \in ls : TRUE
  IN IF ls = {} THEN Done("ws.message", w, <<data>>, wd)
     ELSE /\ Step("ws.message", w, <<data>>, onMessage(e, data, wd))
          /\ heard' = IF /\ data.type = "string"
                         /\ hasCmd(data)
                         /\ parsedCmd(data) \in InternalReplies
                         /\ parsedId(data) < ep[e].msgId
                        THEN heard \cup {<<e, parsedCmd(data), parsedId(data)>>}
                        ELSE heard

Now == World(ep, sock)

Onces(e) == Cardinality({i \in 1..Len(ep[e].closeListeners) : ep[e].closeListeners[i] = "once"})

RECURSIVE SumDelivered(_)
SumDelivered(ws) ==
  IF ws = {} THEN 0
  ELSE LET w == CHOOSE x \in ws : TRUE IN sock[w].delivered + SumDelivered(ws \ {w})

ChangeWebSocket(e, w) ==
  /\ Onces(e) < MaxBinds
  /\ \E host \in Hosts : Done("changeWebSocket", e, <<w>>, changeWebSocket(e, w, host, Now))

Destroy(e) == Done("destroy", e, <<>>, destroy(e, Now))

Send(e, invalid) ==
  /\ ep[e].msgId < MaxSends
  /\ \E a \in {ValidSend(ep[e].msgId)} \cup invalid : Done("send", e, a, send(e, a[1], a[2], a[3], Now))

\* on(name, listener) of the user
On(e) ==
  \E name \in UserEvents :
    /\ IF name = "close" THEN \A i \in 1..Len(ep[e].closeListeners) : ep[e].closeListeners[i] # "user"
                         ELSE name \notin ep[e].subs
    /\ Done("on", e, <<name>>,
            IF name = "close" THEN [Now EXCEPT !.ep[e].closeListeners = Append(@, "user")]
                              ELSE [Now EXCEPT !.ep[e].subs = @ \cup {name}])

\* a command handler calls the reply helper it was given
ReplyCall(e) ==
  \E id \in ep[e].helpers, a \in ReplyArgs :
    Done("replyFunc", e, <<id, a[1], a[2]>>,
         replyFuncValue(e, id, a[1], a[2], [Now EXCEPT !.ep[e].helpers = @ \ {id}]))

\* the thunk a command handler gave to the reply helper settles
ReplyThunk(e) ==
  \E id \in ep[e].helpers, o \in ThunkOutcomes :
    Done("replyThunk", e, <<id, o, FALSE>>,
         replyFuncThunk(e, id, o, FALSE, [Now EXCEPT !.ep[e].helpers = @ \ {id}]))

\* the reply timer of request id runs
TimerFireOf(e, id) ==
  /\ id < ep[e].msgId
  /\ promiseOf(e, id, Now).timer = "armed"
  /\ Done("timer", e, <<id>>, setPromise(e, id, timerRuns(promiseOf(e, id, Now)), Now))

TimerFire(e) == \E id \in 0..(MaxSends - 1) : TimerFireOf(e, id)

\* the socket's connection is established
SockOpen(w) ==
  /\ sock[w].readyState = CONNECTING
  /\ LET w1 == [Now EXCEPT !.sock[w].readyState = OPEN]
         ls == ListenersOf(w, "open")
     IN Done("ws.open", w, <<>>, IF ls = {} THEN w1 ELSE onWsOpen(CHOOSE e \in ls : TRUE, w, w1))

\* the socket reports an error
SockError(w) ==
  /\ sock[w].readyState # CLOSED
  /\ LET ls == ListenersOf(w, "error")
     IN Done("ws.error", w, <<>>, IF ls = {} THEN Now ELSE onWsError(CHOOSE e \in ls : TRUE, w, Now))

\* the socket's connection is closed
SockClose(w) ==
  /\ sock[w].readyState # CLOSED
  /\ LET w1 == [Now EXCEPT !.sock[w].readyState = CLOSED]
         ls == ListenersOf(w, "close")
     IN Done("ws.close", w, <<>>, IF ls = {} THEN w1 ELSE onWsClose(CHOOSE e \in ls : TRUE, w, w1))

\* a frame of the counterpart arrives on the socket
EnvMessage(w, frames) ==
  /\ sock[w].readyState = OPEN
  /\ SumDelivered(W) < MaxIncoming
  /\ \E data \in frames : Arrive(w, data, [Now EXCEPT !.sock[w].delivered = @ + 1])

(* ----------- Spec: one endpoint, its socket and its counterpart ------- *)
A == "a"
B == "b"
W1 == "w1"
W2 == "w2"

Constructed == [op |-> "new", e |-> A, arg |-> <<>>, thrown |-> "none", ret |-> "undefined"]

Init ==
  /\ \E d \in BOOLEAN : ep = [e \in EP |-> newEndpoint(d)]
  /\ \E r \in {CONNECTING, OPEN, CLOSED} :
       sock = [w \in W |-> newSocket(IF w = W1 THEN r ELSE CONNECTING)]
  /\ last = Constructed
  /\ heard = {}

Next ==
  \/ ChangeWebSocket(A, W1)
  \/ Destroy(A)
  \/ Send(A, InvalidSends)
  \/ TimerFire(A)
  \/ SockOpen(W1)
  \/ SockClose(W1)
  \/ EnvMessage(W1, EnvFrames)

Spec == Init /\ [][Next]_vars

\* the same endpoint with valid requests only, and every timer that was set and
\* not cleared eventually running
TimerNext ==
  \/ ChangeWebSocket(A, W1)
  \/ Destroy(A)
  \/ Send(A, {})
  \/ TimerFire(A)
  \/ SockOpen(W1)
  \/ SockClose(W1)
  \/ EnvMessage(W1, ReplyFrames \cup {JsBinary("B1")})

TimerInit ==
  /\ ep = [e \in EP |-> newEndpoint(FALSE)]
  /\ \E r \in {CONNECTING, OPEN} :
       sock = [w \in W |-> newSocket(IF w = W1 THEN r ELSE CONNECTING)]
  /\ last = Constructed
  /\ heard = {}

FairSpec ==
  /\ TimerInit
  /\ [][TimerNext]_vars
  /\ \A id \in 0..(MaxSends - 1) : WF_vars(TimerFireOf(A, id))

(* ------ LifeSpec: one endpoint, two sockets and the user's listeners --- *)
LifeInit ==
  /\ \E d \in BOOLEAN : ep = [e \in EP |-> newEndpoint(d)]
  /\ sock = [w \in W |-> newSocket(CONNECTING)]
  /\ last = Constructed
  /\ heard = {}

LifeNext ==
  \/ \E w \in W : ChangeWebSocket(A, w)
  \/ Destroy(A)
  \/ Send(A, {})
  \/ On(A)
  \/ \E w \in W : SockOpen(w)
  \/ \E w \in W : SockError(w)
  \/ \E w \in W : SockClose(w)

LifeSpec == LifeInit /\ [][LifeNext]_vars


(* ------ SlotSpec: markers and binary frames reaching one endpoint ------ *)
SlotFrames ==
  {textFrame([cmd |-> "int:binaryReply", id |-> i]) : i \in 0..(MaxSends - 1)}
  \cup {JsBinary("B1")}

\* a marker or a binary frame arrives on the socket
SlotMessage(w) ==
  /\ sock[w].readyState = OPEN
  /\ sock[w].delivered < MaxSlotFrames
  /\ \E data \in SlotFrames : Arrive(w, data, [Now EXCEPT !.sock[w].delivered = @ + 1])

SlotInit ==
  /\ ep = [e \in EP |-> newEndpoint(FALSE)]
  /\ sock = [w \in W |-> newSocket(IF w = W1 THEN OPEN ELSE CONNECTING)]
  /\ last = Constructed
  /\ heard = {}

SlotNext ==
  \/ ChangeWebSocket(A, W1)
  \/ Send(A, {})
  \/ TimerFire(A)
  \/ SlotMessage(W1)

SlotSpec == SlotInit /\ [][SlotNext]_vars


(* ---- ServeSpec: one endpoint that handles the commands it receives ---- *)
\* new SimpleWebSocketAPI({destroyOnClose}), then on('echo', ...) and
\* on('close', ...)
ServeInit ==
  /\ \E d \in BOOLEAN :
       ep = [e \in EP |-> [newEndpoint(d) EXCEPT !.subs = {"echo"},
                                                 !.closeListeners = <<"user">>]]
  /\ \E r \in {CONNECTING, OPEN} :
       sock = [w \in W |-> newSocket(IF w = W1 THEN r ELSE CONNECTING)]
  /\ last = Constructed
  /\ heard = {}

ServeNext ==
  \/ ChangeWebSocket(A, W1)
  \/ Destroy(A)
  \/ Send(A, {})
  \/ ReplyCall(A)
  \/ ReplyThunk(A)
  \/ SockOpen(W1)
  \/ SockClose(W1)
  \/ EnvMessage(W1, CmdFrames \cup {textFrame([cmd |-> "int:reply", payload |-> JsStr("ok"), id |-> 0]),
                                    JsBinary("B1")})

ServeSpec == ServeInit /\ [][ServeNext]_vars


(* ------ RebindSpec: one endpoint moving between two live sockets ------ *)
\* frames that arrive on either socket
RebindFrames ==
  {textFrame([cmd |-> "int:reply", payload |-> JsStr("ok"), id |-> 0]),
   textFrame([cmd |-> "echo", payload |-> JsStr("q"), id |-> 0])}

\* new SimpleWebSocketAPI(), then on('echo', ...), on('error', ...) and
\* on('close', ...)
RebindInit ==
  /\ ep = [e \in EP |-> [newEndpoint(FALSE) EXCEPT !.subs = {"echo", "error"},
                                                   !.closeListeners = <<"user">>]]
  /\ sock = [w \in W |-> newSocket(CONNECTING)]
  /\ last = Constructed
  /\ heard = {}

RebindNext ==
  \/ \E w \in W : ChangeWebSocket(A, w)
  \/ Send(A, {})
  \/ \E w \in W : SockOpen(w)
  \/ \E w \in W : SockError(w)
  \/ \E w \in W : SockClose(w)
  \/ \E w \in W : EnvMessage(w, RebindFrames)

RebindSpec == RebindInit /\ [][RebindNext]_vars


(* ------------- PairSpec: two endpoints over one connection ------------ *)
\* the socket at the other end of the connection
Peer(w) == IF w = W1 THEN W2 ELSE W1

\* the next frame the peer socket has sent arrives, in order
WireDeliver(w) ==
  /\ sock[w].readyState = OPEN
  /\ sock[w].delivered < Len(sock[Peer(w)].sent)
  /\ Arrive(w, sock[Peer(w)].sent[sock[w].delivered + 1],
            [Now EXCEPT !.sock[w].delivered = @ + 1])

\* new SimpleWebSocketAPI({ws}) on each side with a connecting socket, the
\* command listeners of b registered, and the connection then established
Connected(cmds) ==
  LET w0 == World([e \in EP |-> IF e = B THEN [newEndpoint(FALSE) EXCEPT !.subs = cmds]
                                         ELSE newEndpoint(FALSE)],
                  [w \in W |-> newSocket(CONNECTING)])
      w1 == changeWebSocket(B, W2, "node", changeWebSocket(A, W1, "node", w0))
      w2 == [w1 EXCEPT !.sock[W1].readyState = OPEN, !.sock[W2].readyState = OPEN]
  IN onWsOpen(B, W2, onWsOpen(A, W1, w2))

PairInit ==
  /\ \E cmds \in {{"echo"}, {"echo", "get"}} :
       /\ ep = Connected(cmds).ep
       /\ sock = Connected(cmds).sock
  /\ last = Constructed
  /\ heard = {}

PairNext ==
  \/ Send(A, {})
  \/ TimerFire(A)
  \/ ReplyCall(B)
  \/ \E w \in W : WireDeliver(w)

PairSpec == PairInit /\ [][PairNext]_vars


(* ======================= properties of the program ==================== *)
\* a string that is neither internal nor a reserved event name
isCommandName(cmd) ==
  /\ cmd.type = "string"
  /\ \A n \in {"open", "close", "error", "newListener", "removeListener"} : cmd.v # n
  /\ ~(Len(cmd.v) >= 4 /\ SubSeq(cmd.v, 1, 4) = "int:")

\* the envelope {cmd, payload, id} as it is read at the other end
Envelope(cmd, payload, id) ==
  IF payload = Undefined THEN [type |-> "string", json |-> [cmd |-> cmd, id |-> id]]
  ELSE [type |-> "string", json |-> [cmd |-> cmd, payload |-> payload, id |-> id]]

IsRequest(f) ==
  /\ f.type = "string"
  /\ "cmd" \in DOMAIN f.json
  /\ f.json.cmd \notin {"int:reply", "int:errorReply", "int:binaryReply"}
RequestCount(w) == Cardinality({i \in 1..Len(sock[w].sent) : IsRequest(sock[w].sent[i])})
RequestsSent == RequestCount(W1) + RequestCount(W2)

\* the step is a call of send on endpoint e
SendCalled(e) == last'.op = "send" /\ last'.e = e
ValidSendCalled(e) == SendCalled(e) /\ isCommandName(last'.arg[1])
InvalidSendCalled(e) == SendCalled(e) /\ ~isCommandName(last'.arg[1])
Usable(e) == ~ep[e].destroyed /\ ep[e].ws # NoWs /\ sock[ep[e].ws].readyState = 1

\* C1: every send of a valid command name made while the transport is open puts
\* exactly one envelope {cmd, payload, id} on the bound socket and nothing on
\* any other; its id is the number of request envelopes transmitted before it on
\* all sockets together, so the ids are 0, 1, 2, ... whatever rebinding happened
\* in between; no other step transmits a request envelope.
C1_OneEnvelopeIncreasingId ==
  [][IF ValidSendCalled(A) /\ ep[A].ws # NoWs /\ sock[ep[A].ws].readyState = 1
       THEN /\ sock'[ep[A].ws].sent =
                 Append(sock[ep[A].ws].sent,
                        Envelope(last'.arg[1].v, last'.arg[2], RequestsSent))
            /\ \A w \in W \ {ep[A].ws} : sock'[w].sent = sock[w].sent
       ELSE RequestsSent' = RequestsSent]_vars

\* requests 0 and 1 went out on different sockets
C1_Witness ==
  /\ last.op = "send"
  /\ sock[W1].sent = <<Envelope("echo", JsStr("p"), 0)>>
  /\ sock[W2].sent = <<Envelope("get", Undefined, 1)>>


(* ---- requests and their replies (Spec) ---- *)
\* the step is the message handler of endpoint e running on this frame
MessageHandled(e) ==
  /\ last'.op = "ws.message"
  /\ ep[e].ws # NoWs
  /\ last'.e = ep[e].ws
  /\ <<e, "message">> \in sock[ep[e].ws].attached
Frame == last'.arg[1]
IsEnvelope(f, tags) == f.type = "string" /\ "cmd" \in DOMAIN f.json /\ f.json.cmd \in tags
FramePayload(f) == IF "payload" \in DOMAIN f.json THEN f.json.payload ELSE Undefined

Issued(e) == 0..(ep[e].msgId - 1)
Promise(e, id) == ep[e].promise[id + 1]
Pending(e, id) == id \in ep[e].awaitingReply /\ Promise(e, id).state = "pending"

\* C2: a reply envelope whose id matches a pending request (one with an entry
\* in #awaitingReply that has not been settled) resolves that request with the
\* envelope's payload, an errorReply rejects it with the payload; the entry is
\* removed, and every other request, the other entries and the binary reply
\* slot stay as they were.
C2_ReplySettlesThatRequest ==
  [][(/\ MessageHandled(A)
      /\ IsEnvelope(Frame, {"int:reply", "int:errorReply"})
      /\ Pending(A, Frame.json.id))
     => LET id == Frame.json.id
        IN /\ ep'[A].promise[id + 1].state =
                IF Frame.json.cmd = "int:reply" THEN "resolved" ELSE "rejected"
           /\ ep'[A].promise[id + 1].value = FramePayload(Frame)
           /\ ep'[A].awaitingReply = ep[A].awaitingReply \ {id}
           /\ \A j \in Issued(A) \ {id} : ep'[A].promise[j + 1] = ep[A].promise[j + 1]
           /\ ep'[A].awaitingBinaryReply = ep[A].awaitingBinaryReply
           /\ last'.thrown = "none"]_vars

\* request 1 was just rejected by an errorReply while request 0 is still pending
C2_Witness ==
  /\ last.op = "ws.message"
  /\ last.arg[1] = Envelope("int:errorReply", JsStr("err"), 1)
  /\ ep[A].msgId = 2
  /\ Promise(A, 1).state = "rejected"
  /\ Promise(A, 1).value = JsStr("err")
  /\ ep[A].awaitingReply = {0}
  /\ Promise(A, 0).state = "pending"

\* C3: a reply, errorReply or binaryReply envelope whose id has no entry in
\* #awaitingReply has no effect: the handler raises nothing and the endpoint and
\* the sockets stay as they were (the socket's count of arrived frames apart).
C3_UnknownIdIgnored ==
  [][(/\ MessageHandled(A)
      /\ ~ep[A].destroyed
      /\ IsEnvelope(Frame, {"int:reply", "int:errorReply", "int:binaryReply"})
      /\ Frame.json.id \notin ep[A].awaitingReply)
     => /\ last'.thrown = "none"
        /\ ep' = ep
        /\ \A w \in W : sock'[w].sent = sock[w].sent]_vars

\* the request was rejected by its timer
SettledByTimer(p) == p.state = "rejected" /\ p.value = p.timerArg
\* the timer of every request agrees with the request's outcome
C5_TimerInv ==
  \A id \in Issued(A) :
    LET p == Promise(A, id)
    IN /\ p.state = "pending" => p.timer = "armed"
       /\ p.timer = "armed" => p.state = "pending"
       /\ p.timer = "fired" <=> SettledByTimer(p)
       /\ (p.state # "pending" /\ ~SettledByTimer(p)) => p.timer = "cleared"
\* C5: a request settles at most once.  While it is pending its timer is armed;
\* once a reply, errorReply or binary frame has settled it the timer is cleared
\* and never runs; once the timer has run it is rejected with the timer's error;
\* and no step changes the outcome of a settled request.
C5_SettlesOnce ==
  /\ []C5_TimerInv
  /\ [][\A id \in Issued(A) :
          /\ Promise(A, id).state # "pending" =>
               /\ ep'[A].promise[id + 1].state = Promise(A, id).state
               /\ ep'[A].promise[id + 1].value = Promise(A, id).value
          /\ Promise(A, id).timer # "armed" =>
               ep'[A].promise[id + 1].timer = Promise(A, id).timer]_vars

\* a reply for request 0 arrived after its timer had run, and found its entry
C5_Witness ==
  /\ last.op = "ws.message"
  /\ last.arg[1] = Envelope("int:reply", JsStr("ok"), 0)
  /\ last.thrown = "none"
  /\ ep[A].msgId >= 1
  /\ Promise(A, 0).timer = "fired"
  /\ Promise(A, 0).state = "rejected"

\* C6 as claimed: send with an invalid command name raises the configuration
\* error whatever the state of the endpoint and its socket, and touches nothing.
C6_AlwaysRaises ==
  [][InvalidSendCalled(A) =>
       /\ last'.thrown = "SimpleWebSocketAPI_Error"
       /\ ep' = ep /\ sock' = sock]_vars

\* C6: send with an invalid command name raises the configuration error when
\* the endpoint is not destroyed and its socket is open, and is a silent no-op
\* otherwise; in both cases no frame is sent, the id counter is not advanced and
\* no request is registered.
C6_RaisesWhenUsable ==
  [][InvalidSendCalled(A) =>
       /\ last'.thrown = IF Usable(A) THEN "SimpleWebSocketAPI_Error" ELSE "none"
       /\ last'.ret = "undefined"
       /\ ep' = ep /\ sock' = sock]_vars

\* send('close') was refused on a usable endpoint that has a request outstanding
C6_Witness ==
  /\ last.op = "send"
  /\ last.arg[1] = JsStr("close")
  /\ last.thrown = "SimpleWebSocketAPI_Error"
  /\ Usable(A)
  /\ ep[A].msgId = 1

\* C7: send with a valid command name on an endpoint that is destroyed, unbound
\* or bound to a socket that is not open raises nothing, returns undefined, and
\* leaves the endpoint and the sockets as they were.
C7_SilentNoOp ==
  [][(ValidSendCalled(A) /\ ~Usable(A)) =>
       /\ last'.thrown = "none"
       /\ last'.ret = "undefined"
       /\ ep' = ep /\ sock' = sock]_vars

\* send was called on an endpoint whose socket is still connecting
C7_Witness ==
  /\ last.op = "send"
  /\ isCommandName(last.arg[1])
  /\ last.ret = "undefined"
  /\ ~ep[A].destroyed
  /\ ep[A].ws = W1
  /\ sock[W1].readyState = 0


(* ---- the reply timeout (FairSpec: an armed timer eventually runs) ---- *)
Heard(e, tag, id) == <<e, tag, id>> \in heard
\* the error the timer of request id carries: echo is sent with the default
\* replyTimeout, get with one of 50 ms
TimeoutOf(id) ==
  IF id % 2 = 0
    THEN [type |-> "SimpleWebSocketAPI_Error", code |-> "REPLY_TIMEOUT",
          v |-> "A reply for \"echo\" was not received within the replyTimeout period of 2000 ms."]
    ELSE [type |-> "SimpleWebSocketAPI_Error", code |-> "REPLY_TIMEOUT",
          v |-> "A reply for \"get\" was not received within the replyTimeout period of 50 ms."]
TimedOut(e, id) ==
  /\ id \in Issued(e)
  /\ Promise(e, id).state = "rejected"
  /\ Promise(e, id).value = TimeoutOf(id)
Resolved(e, id) == id \in Issued(e) /\ Promise(e, id).state = "resolved"

\* C4 as claimed: a request for which no reply and no errorReply envelope
\* arrives is eventually rejected with the timeout error, and is never resolved.
C4_TimeoutUnlessReply ==
  /\ [](\A id \in 0..(MaxSends - 1) :
          (~Heard(A, "int:reply", id) /\ ~Heard(A, "int:errorReply", id)) => ~Resolved(A, id))
  /\ \A id \in 0..(MaxSends - 1) :
       [](id \in Issued(A) =>
            <>(Heard(A, "int:reply", id) \/ Heard(A, "int:errorReply", id) \/ TimedOut(A, id)))

\* C4: a request for which no reply, no errorReply and no binaryReply marker
\* arrives is eventually rejected with the timeout error naming its command and
\* its replyTimeout (code REPLY_TIMEOUT), and is never resolved.
C4_TimeoutUnlessAnswered ==
  /\ [](\A id \in 0..(MaxSends - 1) :
          (/\ ~Heard(A, "int:reply", id) /\ ~Heard(A, "int:errorReply", id)
           /\ ~Heard(A, "int:binaryReply", id)) => ~Resolved(A, id))
  /\ \A id \in 0..(MaxSends - 1) :
       [](id \in Issued(A) =>
            <>(\/ Heard(A, "int:reply", id) \/ Heard(A, "int:errorReply", id)
               \/ Heard(A, "int:binaryReply", id) \/ TimedOut(A, id)))

\* both requests timed out and nothing was ever received
C4_Witness ==
  /\ heard = {}
  /\ sock[W1].delivered = 0
  /\ ep[A].msgId = 2
  /\ TimedOut(A, 0) /\ TimedOut(A, 1)
  /\ Promise(A, 0).timer = "fired" /\ Promise(A, 1).timer = "fired"


(* ---- two connected endpoints (PairSpec): a sends, b answers ---- *)
\* the step is the message handler of endpoint e running on a command envelope
CommandHandled(e) ==
  /\ MessageHandled(e)
  /\ Frame.type = "string"
  /\ "cmd" \in DOMAIN Frame.json
  /\ isCommandName(JsStr(Frame.json.cmd))
NoListenerReply(cmd, id) ==
  [type |-> "string",
   json |-> [cmd |-> "int:errorReply",
             payload |-> [type |-> "string", v |-> "No listener for command: " \o cmd],
             id |-> id]]
Unsettled(e, id) == id \in Issued(e) /\ Promise(e, id).state = "pending"

\* C8: a command envelope arriving at an open endpoint that has no subscriber
\* for the command makes the endpoint send exactly one frame, the errorReply
\* {payload: "No listener for command: " + cmd, id}; and when that errorReply
\* reaches the sender while the request is pending, the request is rejected
\* with that payload.
C8_NoListenerErrorReply ==
  [][/\ (CommandHandled(B) /\ Frame.json.cmd \notin ep[B].subs) =>
          /\ sock'[W2].sent =
               Append(sock[W2].sent, NoListenerReply(Frame.json.cmd, Frame.json.id))
          /\ sock'[W1].sent = sock[W1].sent
     /\ \A id \in 0..(MaxSends - 1) :
          (/\ MessageHandled(A)
           /\ id \in Issued(A)
           /\ Pending(A, id)
           /\ Frame = NoListenerReply(Promise(A, id).cmd, id)) =>
             /\ ep'[A].promise[id + 1].state = "rejected"
             /\ ep'[A].promise[id + 1].value =
                  [type |-> "string", v |-> "No listener for command: " \o Promise(A, id).cmd]
    ]_vars

\* the get request of a was rejected because b has no listener for get
C8_Witness ==
  /\ "get" \notin ep[B].subs
  /\ ep[A].msgId = 2
  /\ Promise(A, 1).cmd = "get"
  /\ Promise(A, 1).state = "rejected"
  /\ Promise(A, 1).value = JsStr("No listener for command: get")
  /\ \E k \in 1..Len(sock[W2].sent) :
       sock[W2].sent[k] = Envelope("int:errorReply", JsStr("No listener for command: get"), 1)

Marker(id) == [type |-> "string", json |-> [cmd |-> "int:binaryReply", id |-> id]]
\* the step is a call of the reply helper of endpoint e with binary data
BinaryReplyCalled(e) ==
  /\ last'.op = "replyFunc"
  /\ last'.e = e
  /\ last'.arg[2].type = "binary"
  /\ last'.arg[3] = FALSE
\* the frames socket w has received so far
Received(w) == SubSeq(sock[Peer(w)].sent, 1, sock[w].delivered)

\* C9: a reply helper called with binary data puts the marker {cmd:
\* 'int:binaryReply', id} and then the binary frame on the wire, and nothing
\* else; the arrival of a marker settles nothing; the binary frame that arrives
\* right after the marker of a pending request resolves that request with the
\* frame's bytes; so a request resolved with binary data was resolved with the
\* bytes that followed its marker, however requests and replies interleave.
C9_BinaryRoundTrip ==
  /\ [][/\ BinaryReplyCalled(B) =>
             /\ sock'[W2].sent = sock[W2].sent \o <<Marker(last'.arg[1]), last'.arg[2]>>
             /\ sock'[W1].sent = sock[W1].sent
        /\ (MessageHandled(A) /\ IsEnvelope(Frame, {"int:binaryReply"})) =>
             ep'[A].promise = ep[A].promise
        /\ \A id \in 0..(MaxSends - 1) :
             (/\ MessageHandled(A)
              /\ Frame.type = "binary"
              /\ sock[W1].delivered >= 1
              /\ sock[W2].sent[sock[W1].delivered] = Marker(id)
              /\ Unsettled(A, id)) =>
                /\ ep'[A].promise[id + 1].state = "resolved"
                /\ ep'[A].promise[id + 1].value = Frame
       ]_vars
  /\ [](\A id \in Issued(A) :
          (Promise(A, id).state = "resolved" /\ Promise(A, id).value.type = "binary") =>
            \E k \in 1..(Len(Received(W1)) - 1) :
              /\ Received(W1)[k] = Marker(id)
              /\ Received(W1)[k + 1] = Promise(A, id).value)

\* b answered request 1 before request 0, each with its own bytes, and both
\* requests resolved with the bytes sent for them
C9_Witness ==
  /\ sock[W2].sent = <<Marker(1), JsBinary("B2"), Marker(0), JsBinary("B3")>>
  /\ ep[A].msgId = 2
  /\ Promise(A, 0).state = "resolved" /\ Promise(A, 0).value = JsBinary("B3")
  /\ Promise(A, 1).state = "resolved" /\ Promise(A, 1).value = JsBinary("B2")

(* ---- the life cycle (LifeSpec) ---- *)
DestroyCalled(e) == last'.op = "destroy" /\ last'.e = e
HasUserCloseListener(e) ==
  \E i \in 1..Len(ep[e].closeListeners) : ep[e].closeListeners[i] = "user"
DestroyNotification ==
  [ev |-> "close", from |-> "destroy", code |-> 4000,
   reason |-> "SimpleWebSocketAPI destroy call", wasClean |-> TRUE]
TotalCloseCalls == sock[W1].closeCalls + sock[W2].closeCalls

\* C10: destroy on an endpoint bound to a socket that is not closed closes that
\* socket once and gives the close listener exactly one notification, {code:
\* 4000, reason: 'SimpleWebSocketAPI destroy call', wasClean: true}; destroy on
\* a destroyed endpoint raises nothing and changes nothing; and once destroyed
\* no step closes a socket again or notifies a listener again, the socket's own
\* close event included.
C10_DestroyIdempotent ==
  [][/\ (/\ DestroyCalled(A) /\ ~ep[A].destroyed
         /\ ep[A].ws # NoWs /\ sock[ep[A].ws].readyState # 3) =>
          /\ ep'[A].destroyed
          /\ sock'[ep[A].ws].closeCalls = sock[ep[A].ws].closeCalls + 1
          /\ TotalCloseCalls' = TotalCloseCalls + 1
          /\ ep'[A].notes = IF HasUserCloseListener(A)
                              THEN Append(ep[A].notes, DestroyNotification)
                              ELSE ep[A].notes
          /\ last'.thrown = "none"
     /\ (DestroyCalled(A) /\ ep[A].destroyed) =>
          /\ ep' = ep /\ sock' = sock
          /\ last'.thrown = "none"
     /\ ep[A].destroyed =>
          /\ ep'[A].notes = ep[A].notes
          /\ TotalCloseCalls' = TotalCloseCalls
    ]_vars

\* destroy was called, the socket then closed, and destroy was called again:
\* one close() call and one notification in all
C10_Witness ==
  /\ last.op = "destroy"
  /\ ep[A].destroyed
  /\ ep[A].ws = W1
  /\ sock[W1].readyState = 3
  /\ sock[W1].closeCalls = 1
  /\ ep[A].notes = <<DestroyNotification>>


(* ---- an endpoint that handles commands (ServeSpec) ---- *)
\* C11: once the endpoint is destroyed it stays destroyed and its pending-
\* request mapping is and stays empty, and no later step (changeWebSocket,
\* send, a reply helper obtained earlier, an arriving text or binary frame,
\* destroy, a socket event) raises an error, puts a frame on a socket, calls a
\* listener of the user, hands out a reply helper, binds a socket or attaches a
\* listener to one.
C11_InertAfterDestroy ==
  /\ [](ep[A].destroyed => ep[A].awaitingReply = {})
  /\ [][ep[A].destroyed =>
          /\ ep'[A].destroyed
          /\ last'.thrown = "none"
          /\ \A w \in W : sock'[w].sent = sock[w].sent
          /\ \A w \in W : sock'[w].attached = sock[w].attached
          /\ \A w \in W : sock'[w].closeCalls = sock[w].closeCalls
          /\ ep'[A].notes = ep[A].notes
          /\ ep'[A].helpers \subseteq ep[A].helpers
          /\ ep'[A].ws = ep[A].ws
          /\ ep'[A].msgId = ep[A].msgId
          /\ ep'[A].awaitingReply = {}]_vars

\* a reply helper handed out for the echo command before destroy was called
\* after it: nothing was sent
C11_Witness ==
  /\ ep[A].destroyed
  /\ last.op = "replyFunc"
  /\ last.arg[2] = JsStr("r")
  /\ last.thrown = "none"
  /\ sock[W1].delivered = 1
  /\ sock[W1].sent = <<>>


(* ---- rebinding (RebindSpec) ---- *)
SocketEvents == {"ws.open", "ws.error", "ws.close", "ws.message"}
\* the step is an event of socket w
EventOn(w) == last'.op \in SocketEvents /\ last'.e = w
TransportNote(ev) == [ev |-> ev, from |-> "transport", code |-> 0]

\* C12: a socket the endpoint is not (or no longer) bound to carries none of
\* the endpoint's four listeners, so an open, error, close or message event of
\* it raises nothing, calls no listener, settles no request and sends no frame;
\* on the socket the endpoint is bound to, a reply for a pending request
\* settles it, an error event reaches the error listener and a close event the
\* close listener.
C12_OldSocketDetached ==
  /\ [](\A w \in W : w # ep[A].ws => sock[w].attached = {})
  /\ [][\A w \in W :
          /\ (EventOn(w) /\ w # ep[A].ws) =>
               /\ ep' = ep
               /\ \A x \in W : sock'[x].sent = sock[x].sent
               /\ last'.thrown = "none"
          /\ (/\ EventOn(w) /\ w = ep[A].ws /\ last'.op = "ws.message"
              /\ IsEnvelope(Frame, {"int:reply"}) /\ Pending(A, Frame.json.id)) =>
               /\ ep'[A].promise[Frame.json.id + 1].state = "resolved"
               /\ ep'[A].promise[Frame.json.id + 1].value = Frame.json.payload
          /\ (/\ EventOn(w) /\ w = ep[A].ws /\ last'.op = "ws.error"
              /\ <<A, "error">> \in sock[w].attached) =>
               ep'[A].notes = Append(ep[A].notes, TransportNote("error"))
          /\ (/\ EventOn(w) /\ w = ep[A].ws /\ last'.op = "ws.close"
              /\ <<A, "close">> \in sock[w].attached) =>
               ep'[A].notes = Append(ep[A].notes, TransportNote("close"))]_vars

\* the request went out on w1, the endpoint was then rebound to w2, and the
\* reply that just arrived on w1 left the request pending
C12_Witness ==
  /\ last.op = "ws.message"
  /\ last.e = W1
  /\ last.arg[1] = Envelope("int:reply", JsStr("ok"), 0)
  /\ sock[W1].sent = <<Envelope("echo", JsStr("p"), 0)>>
  /\ ep[A].ws = W2
  /\ sock[W2].readyState = 1
  /\ sock[W2].attached # {}
  /\ ep[A].awaitingReply = {0}
  /\ Promise(A, 0).state = "pending"


(* ---- binding a socket that is already open or closed (LifeSpec) ---- *)
\* the step is a changeWebSocket call of endpoint e
BindCalled(e) == last'.op = "changeWebSocket" /\ last'.e = e

\* C13: binding a socket that is already open or already closed raises no
\* error and calls no listener before it returns (the open notification, or
\* the close notification with code 4001, is left to a later tick), and a
\* closed socket gets no listeners attached.
C13_BindAnnouncesLater ==
  [][(/\ BindCalled(A)
      /\ ~ep[A].destroyed
      /\ sock[last'.arg[1]].readyState \in {1, 3}) =>
       /\ last'.thrown = "none"
       /\ ep'[A].notes = ep[A].notes
       /\ sock[last'.arg[1]].readyState = 3 => sock'[last'.arg[1]].attached = {}]_vars


(* ---- the close event of the bound socket (LifeSpec) ---- *)
\* the step is the close event of socket w reaching the listener of endpoint e
CloseHandled(e, w) ==
  /\ last'.op = "ws.close"
  /\ last'.e = w
  /\ <<e, "close">> \in sock[w].attached

\* C14: when the close event of the bound socket reaches the endpoint, the
\* endpoint's listeners are detached from the socket and the close listener of
\* the user, if there is one, is called exactly once with that event.  With
\* destroyOnClose the endpoint is then destroyed and its pending-request
\* mapping empty, without a close() call and without a second notification;
\* without destroyOnClose it is not destroyed, keeps its mapping, and a later
\* changeWebSocket binds the socket it is given.
C14_DestroyOnClose ==
  [][/\ \A w \in W :
          (CloseHandled(A, w) /\ ~ep[A].destroyed) =>
            /\ ep[A].ws = w
            /\ sock'[w].attached = {}
            /\ ep'[A].notes = IF HasUserCloseListener(A)
                                THEN Append(ep[A].notes, TransportNote("close"))
                                ELSE ep[A].notes
            /\ TotalCloseCalls' = TotalCloseCalls
            /\ last'.thrown = "none"
            /\ IF ep[A].destroyOnClose
                 THEN ep'[A].destroyed /\ ep'[A].awaitingReply = {}
                 ELSE ~ep'[A].destroyed /\ ep'[A].awaitingReply = ep[A].awaitingReply
     /\ (BindCalled(A) /\ ~ep[A].destroyed) => ep'[A].ws = last'.arg[1]
     /\ (BindCalled(A) /\ ep[A].destroyed) => ep'[A].ws = ep[A].ws]_vars

\* with destroyOnClose, the socket closed while a request was pending: the
\* endpoint is destroyed, its mapping empty, and the close listener was called
\* once
C14_Witness ==
  /\ last.op = "ws.close"
  /\ last.e = W1
  /\ ep[A].destroyOnClose
  /\ ep[A].ws = W1
  /\ ep[A].destroyed
  /\ ep[A].msgId = 1
  /\ ep[A].awaitingReply = {}
  /\ sock[W1].attached = {}
  /\ sock[W1].closeCalls = 0
  /\ ep[A].notes = <<TransportNote("close")>>


(* ---- the reply helper (ServeSpec) ---- *)
\* the step is a thunk given to the reply helper of endpoint e failing
ThunkFailed(e) == last'.op = "replyThunk" /\ last'.e = e /\ ~last'.arg[2].ok
\* what the receiver of an envelope reads where the sender put an error: a
\* string as it is, an Error object as {} (JSON keeps no message)
OnTheWire(err) == IF err.type = "Error" THEN [type |-> "object", v |-> "{}"] ELSE err
SentUnchanged == \A w \in W : sock'[w].sent = sock[w].sent

\* C15 as claimed: whenever a thunk given to the reply helper fails, exactly one
\* errorReply envelope with the request's id and the caught error is sent, and
\* nothing is raised.
C15_ThunkFailureAlwaysReplied ==
  [][ThunkFailed(A) =>
       /\ ep[A].ws # NoWs
       /\ sock'[ep[A].ws].sent =
            Append(sock[ep[A].ws].sent,
                   Envelope("int:errorReply", OnTheWire(last'.arg[2].v), last'.arg[1]))
       /\ last'.thrown = "none"]_vars

\* C15: when a thunk given to the reply helper fails with an error that is not
\* binary data, on an endpoint that is not destroyed and whose socket is open,
\* exactly one frame is sent, the errorReply envelope with the request's id and
\* the caught error, and nothing is raised.  On a destroyed, unbound or not open
\* endpoint nothing is sent and nothing raised; when the caught error is binary
\* data nothing is sent and the helper's promise rejects with the
\* configuration error.
C15_ThunkFailureReplied ==
  [][ThunkFailed(A) =>
       IF ~Usable(A)
         THEN SentUnchanged /\ last'.thrown = "none"
       ELSE IF last'.arg[2].v.type = "binary"
         THEN SentUnchanged /\ last'.thrown = "SimpleWebSocketAPI_Error"
       ELSE /\ sock'[ep[A].ws].sent =
                 Append(sock[ep[A].ws].sent,
                        Envelope("int:errorReply", OnTheWire(last'.arg[2].v), last'.arg[1]))
            /\ \A w \in W \ {ep[A].ws} : sock'[w].sent = sock[w].sent
            /\ last'.thrown = "none"]_vars

\* the thunk given for the echo command threw 'boom', and the errorReply went out
C15_Witness ==
  /\ last.op = "replyThunk"
  /\ last.arg[2] = [ok |-> FALSE, v |-> JsStr("boom")]
  /\ last.thrown = "none"
  /\ sock[W1].sent = <<Envelope("int:errorReply", JsStr("boom"), 0)>>


\* the step is a call of the reply helper of endpoint e with binary data and
\* isError = true
BinaryErrorReplyCalled(e) ==
  /\ last'.op = "replyFunc"
  /\ last'.e = e
  /\ last'.arg[2].type = "binary"
  /\ last'.arg[3] = TRUE

\* C16: a reply helper called with binary data and isError = true, on an
\* endpoint that is not destroyed and whose socket is open, raises the
\* configuration error to its caller and sends no frame at all.
C16_BinaryErrorRefused ==
  [][(BinaryErrorReplyCalled(A) /\ Usable(A)) =>
       /\ last'.thrown = "SimpleWebSocketAPI_Error"
       /\ SentUnchanged]_vars


(* ---- the pending-request mapping (Spec) ---- *)
\* the requests that were sent and still await a reply: not settled by a
\* reply, an errorReply or the timer, not handed to the binary reply slot by a
\* marker, and not dropped by destroy
AwaitingReply(e) ==
  IF ep[e].destroyed THEN {}
  ELSE {id \in Issued(e) : Promise(e, id).state = "pending" /\ ~Heard(e, "int:binaryReply", id)}

\* C17: in every reachable state the pending-request mapping holds exactly the
\* ids of the requests that were sent and still await a reply; in particular
\* the id of a request whose timer has run is not in it.
C17_MappingExact ==
  /\ ep[A].awaitingReply = AwaitingReply(A)
  /\ \A id \in Issued(A) : Promise(A, id).timer = "fired" => id \notin ep[A].awaitingReply


(* ---- the binary reply slot (SlotSpec) ---- *)
Slot(e) == ep[e].awaitingBinaryReply
\* the request has neither an entry in the mapping nor the slot, and is not settled
Orphaned(e, id) ==
  /\ id \in Issued(e)
  /\ Promise(e, id).state = "pending"
  /\ id \notin ep[e].awaitingReply
  /\ id \notin Slot(e)
OthersUnchanged(e, id) ==
  \A j \in Issued(e) \ {id} : ep'[e].promise[j + 1] = ep[e].promise[j + 1]

\* C18: the binary reply slot holds at most one request.  A marker whose id has
\* an entry puts that request in the slot, in place of whatever was there,
\* and removes the entry without settling anything; a binary frame arriving
\* while the slot is armed resolves the request in the slot, only that one, and
\* empties the slot; a binary frame arriving while the slot is empty changes
\* nothing; and a request that a later marker pushed out of the slot is never
\* resolved: it stays pending until its timer rejects it.
C18_LastMarkerWins ==
  /\ [](Cardinality(Slot(A)) <= 1)
  /\ [][/\ (/\ MessageHandled(A) /\ IsEnvelope(Frame, {"int:binaryReply"})
            /\ Frame.json.id \in ep[A].awaitingReply) =>
             /\ ep'[A].awaitingBinaryReply = {Frame.json.id}
             /\ ep'[A].awaitingReply = ep[A].awaitingReply \ {Frame.json.id}
             /\ ep'[A].promise = ep[A].promise
        /\ \A id \in 0..(MaxSends - 1) :
             (MessageHandled(A) /\ Frame.type = "binary" /\ Slot(A) = {id}) =>
               /\ ep'[A].awaitingBinaryReply = {}
               /\ OthersUnchanged(A, id)
               /\ Promise(A, id).state = "pending" =>
                    /\ ep'[A].promise[id + 1].state = "resolved"
                    /\ ep'[A].promise[id + 1].value = Frame
        /\ (MessageHandled(A) /\ Frame.type = "binary" /\ Slot(A) = {}) =>
             /\ ep' = ep
             /\ SentUnchanged
             /\ last'.thrown = "none"
        /\ \A id \in 0..(MaxSends - 1) :
             Orphaned(A, id) =>
               \/ ep'[A].promise[id + 1] = Promise(A, id)
               \/ /\ last'.op = "timer"
                  /\ ep'[A].promise[id + 1].state = "rejected"
                  /\ ep'[A].promise[id + 1].value = TimeoutOf(id)
       ]_vars

\* the markers of request 0 and then of request 1 arrived, and the binary
\* frame that followed resolved request 1 and left request 0 pending
C18_Witness ==
  /\ last.op = "ws.message"
  /\ last.arg[1] = JsBinary("B1")
  /\ sock[W1].delivered = 3
  /\ Heard(A, "int:binaryReply", 0) /\ Heard(A, "int:binaryReply", 1)
  /\ Promise(A, 1).state = "resolved" /\ Promise(A, 1).value = JsBinary("B1")
  /\ Promise(A, 0).state = "pending"
  /\ Orphaned(A, 0)


(* ---- frames and the life cycle (ServeSpec) ---- *)
\* C19: no arriving frame runs the endpoint's life cycle handling: a message
\* step leaves the socket's listeners attached, the one-shot close handler
\* registered and the endpoint as destroyed or not as it was.
C19_FramesLeaveLifecycleAlone ==
  [][MessageHandled(A) =>
       /\ \A w \in W : sock'[w].attached = sock[w].attached
       /\ ep'[A].destroyed = ep[A].destroyed
       /\ ep'[A].closeListeners = ep[A].closeListeners]_vars


(* ---- destroy and the requests that are pending (FairSpec) ---- *)
Settled(e, id) == id \in Issued(e) /\ Promise(e, id).state # "pending"

\* C20: destroy leaves every request and its timer as they were; while the
\* endpoint is destroyed a pending request changes only by its timer rejecting
\* it with its timeout error, whatever frame arrives; and every request that
\* was issued is eventually settled, one that is pending on a destroyed
\* endpoint by its timeout error.
C20_DestroyLeavesTimers ==
  /\ [][/\ DestroyCalled(A) => ep'[A].promise = ep[A].promise
        /\ \A id \in 0..(MaxSends - 1) :
             (ep[A].destroyed /\ Unsettled(A, id)) =>
               \/ ep'[A].promise[id + 1] = Promise(A, id)
               \/ /\ last'.op = "timer"
                  /\ ep'[A].promise[id + 1].state = "rejected"
                  /\ ep'[A].promise[id + 1].value = TimeoutOf(id)
                  /\ ep'[A].promise[id + 1].timer = "fired"]_vars
  /\ \A id \in 0..(MaxSends - 1) :
       /\ [](id \in Issued(A) => <>Settled(A, id))
       /\ []((ep[A].destroyed /\ Unsettled(A, id)) => <>TimedOut(A, id))

\* the request was pending when destroy was called, nothing ever arrived for
\* it, and its timer has just rejected it
C20_Witness ==
  /\ last.op = "timer"
  /\ last.arg = <<0>>
  /\ ep[A].destroyed
  /\ ep[A].msgId = 1
  /\ heard = {}
  /\ TimedOut(A, 0)
  /\ Promise(A, 0).timer = "fired"

====
